---- MODULE Spec2Model ----
(***************************************************************************)
(* The desktop shell launcher of desktop-app/src-tauri/src/main.rs.        *)
(*                                                                         *)
(* main() hands a setup closure to the host runtime (tauri).  The closure  *)
(* reads ROYALTIES_URL, falls back to a literal default when the read      *)
(* fails, parses the string as a URL (unwrap: a parse error panics),       *)
(* asks the runtime to build one window and returns Ok.  The runtime then  *)
(* owns the event loop.                                                    *)
(*                                                                         *)
(* Strings are sequences of one-character strings, so that the URL parser  *)
(* (str::parse::<Url>, line 17) is modelled by what it does to the         *)
(* characters rather than as the identity.                                 *)
(***************************************************************************)
EXTENDS Integers, Sequences, FiniteSets, TLC

VARIABLES env, pc, url, target, requests, buildResults, windows, lifecycle,
          exitStatus, stderr

vars ==
    <<env, pc, url, target, requests, buildResults, windows, lifecycle,
      exitStatus, stderr>>

(***************************************************************************)
(* Characters                                                              *)
(***************************************************************************)
Lower == <<"a","b","c","d","e","f","g","h","i","j","k","l","m",
           "n","o","p","q","r","s","t","u","v","w","x","y","z">>

Upper == <<"A","B","C","D","E","F","G","H","I","J","K","L","M",
           "N","O","P","Q","R","S","T","U","V","W","X","Y","Z">>

Digits == <<"0","1","2","3","4","5","6","7","8","9">>

Range(s) == { s[i] : i \in DOMAIN s }

IsAlpha(c) == c \in Range(Lower) \cup Range(Upper)

IsDigit(c) == c \in Range(Digits)

DigitVal(c) == (CHOOSE i \in DOMAIN Digits : Digits[i] = c) - 1

\* char::to_ascii_lowercase
ToLowerChar(c) ==
    IF c \in Range(Upper)
    THEN Lower[CHOOSE i \in DOMAIN Upper : Upper[i] = c]
    ELSE c

ToLower(s) == [i \in DOMAIN s |-> ToLowerChar(s[i])]

RECURSIVE Flatten(_)
Flatten(ss) == IF ss = <<>> THEN <<>> ELSE Head(ss) \o Flatten(Tail(ss))

\* u32/u16/u8 Display: the decimal digits of n
RECURSIVE Decimal(_)
Decimal(n) ==
    IF n < 10 THEN <<Digits[n + 1]>>
    ELSE Append(Decimal(n \div 10), Digits[(n % 10) + 1])

(***************************************************************************)
(* The strings of the program                                              *)
(***************************************************************************)
\* "http://localhost:3000" (line 12)
DEFAULT_URL ==
    <<"h","t","t","p",":","/","/","l","o","c","a","l","h","o","s","t",
      ":","3","0","0","0">>

\* "main" (line 16)
WINDOW_LABEL == <<"m","a","i","n">>

\* "Royalties - Whales Music" (line 19)
WINDOW_TITLE ==
    <<"R","o","y","a","l","t","i","e","s"," ","-"," ",
      "W","h","a","l","e","s"," ","M","u","s","i","c">>

(***************************************************************************)
(* url.parse() (line 17): <Url as FromStr>::from_str == Url::parse with no *)
(* base URL.  A Url is its serialization (the struct stores exactly that   *)
(* string plus offsets into it).  The parser is modelled for input over    *)
(* InputAlphabet: letters, digits, space and the delimiters ":", "/", ".", *)
(* "+", "-".  Out of that alphabet, and so not modelled: userinfo ("@"),   *)
(* query ("?"), fragment ("#"), backslash, percent escapes, IPv6           *)
(* brackets, non-ASCII (IDNA) hosts, tab/newline removal.  The file        *)
(* scheme has a parser of its own, which is not modelled either: no        *)
(* string of EnvStrings has that scheme.  Path segments "." and ".." are   *)
(* not resolved: no string of EnvStrings has one.                          *)
(***************************************************************************)
InputAlphabet ==
    Range(Lower) \cup Range(Upper) \cup Range(Digits) \cup {" ", ":", "/", ".", "+", "-"}

ParseOk(u) == [ok |-> TRUE, url |-> u, err |-> "none"]

ParseErr(e) == [ok |-> FALSE, url |-> <<>>, err |-> e]

\* Url::parse step 1: strip leading and trailing C0-control-or-space
RECURSIVE TrimStart(_)
TrimStart(s) ==
    IF s # <<>> /\ Head(s) = " " THEN TrimStart(Tail(s)) ELSE s

RECURSIVE TrimEnd(_)
TrimEnd(s) ==
    IF s # <<>> /\ s[Len(s)] = " " THEN TrimEnd(SubSeq(s, 1, Len(s) - 1)) ELSE s

Trim(s) == TrimEnd(TrimStart(s))

IsSchemeChar(c) == IsAlpha(c) \/ IsDigit(c) \/ c \in {"+", "-", "."}

\* index of the first character of s satisfying no scheme character, Len(s)+1 if none
SchemeEnd(s) ==
    LET stops == { i \in DOMAIN s : ~IsSchemeChar(s[i]) }
    IN  IF stops = {} THEN Len(s) + 1
        ELSE CHOOSE i \in stops : \A j \in stops : i <= j

\* Parser::parse_scheme: ALPHA *( ALPHA / DIGIT / "+" / "-" / "." ) ":"
ParseScheme(s) ==
    LET k == SchemeEnd(s)
    IN  IF s = <<>> \/ ~IsAlpha(s[1]) \/ k > Len(s) \/ s[k] # ":"
        THEN [ok |-> FALSE, scheme |-> <<>>, rest |-> <<>>]
        ELSE [ok |-> TRUE, scheme |-> ToLower(SubSeq(s, 1, k - 1)),
              rest |-> SubSeq(s, k + 1, Len(s))]

SchemeHttp == <<"h","t","t","p">>

SchemeHttps == <<"h","t","t","p","s">>

SchemeWs == <<"w","s">>

SchemeWss == <<"w","s","s">>

SchemeFtp == <<"f","t","p">>

SchemeFile == <<"f","i","l","e">>

\* SchemeType::SpecialNotFile
IsSpecialNotFile(scheme) ==
    scheme \in {SchemeHttp, SchemeHttps, SchemeWs, SchemeWss, SchemeFtp}

\* parser::default_port; -1 stands for None
DefaultPort(scheme) ==
    IF scheme \in {SchemeHttp, SchemeWs} THEN 80
    ELSE IF scheme \in {SchemeHttps, SchemeWss} THEN 443
    ELSE IF scheme = SchemeFtp THEN 21
    ELSE -1

\* number of leading "/" (Input::count_matching in parse_with_scheme)
RECURSIVE SkipSlashes(_)
SkipSlashes(s) ==
    IF s # <<>> /\ Head(s) = "/" THEN SkipSlashes(Tail(s)) ELSE s

\* Parser::parse_host: the host runs up to the first ":" or "/"
HostEnd(s) ==
    LET stops == { i \in DOMAIN s : s[i] \in {":", "/"} }
    IN  IF stops = {} THEN Len(s) + 1
        ELSE CHOOSE i \in stops : \A j \in stops : i <= j

RECURSIVE SplitDots(_)
SplitDots(s) ==
    LET dots == { i \in DOMAIN s : s[i] = "." }
    IN  IF dots = {} THEN <<s>>
        ELSE LET d == CHOOSE i \in dots : \A j \in dots : i <= j
             IN  <<SubSeq(s, 1, d - 1)>> \o SplitDots(SubSeq(s, d + 1, Len(s)))

AllDigits(s) == s # <<>> /\ \A i \in DOMAIN s : IsDigit(s[i])

\* host::parse_ipv4addr drops one trailing empty label
Ipv4Parts(h) ==
    LET parts == SplitDots(h)
    IN  IF Len(parts) > 1 /\ parts[Len(parts)] = <<>>
        THEN SubSeq(parts, 1, Len(parts) - 1) ELSE parts

\* host::ends_in_a_number (decimal labels; "0x" labels need "x" after a "0")
EndsInANumber(h) ==
    LET parts == Ipv4Parts(h)
    IN  AllDigits(parts[Len(parts)])

RECURSIVE DecimalValue(_)
DecimalValue(s) ==
    IF s = <<>> THEN 0
    ELSE 10 * DecimalValue(SubSeq(s, 1, Len(s) - 1)) + DigitVal(s[Len(s)])

RECURSIVE Pow256(_)
Pow256(n) == IF n = 0 THEN 1 ELSE 256 * Pow256(n - 1)

\* host::parse_ipv4number for a decimal label without leading zero (a leading
\* "0" selects octal or hex).  Labels of more than 9 digits are reported as
\* out of range, which is exact from 11 digits on.
Ipv4NumberOk(s) ==
    AllDigits(s) /\ Len(s) <= 9 /\ (Len(s) = 1 \/ s[1] # "0")

\* host::parse_ipv4addr; the result is the four octets, <<>> for InvalidIpv4Address
ParseIpv4(h) ==
    LET parts == Ipv4Parts(h)
        n     == Len(parts)
    IN  IF n > 4 \/ \E i \in 1..n : ~Ipv4NumberOk(parts[i]) THEN <<>>
        ELSE LET last == DecimalValue(parts[n])
             IN  IF (n > 1 /\ last >= Pow256(5 - n))
                    \/ \E i \in 1..(n - 1) : DecimalValue(parts[i]) > 255
                 THEN <<>>
                 ELSE [i \in 1..4 |->
                         IF i < n THEN DecimalValue(parts[i])
                         ELSE (last \div Pow256(4 - i)) % 256]

\* Ipv4Addr Display
FormatIpv4(o) ==
    Decimal(o[1]) \o <<".">> \o Decimal(o[2]) \o <<".">> \o Decimal(o[3])
        \o <<".">> \o Decimal(o[4])

\* forbidden host code points that InputAlphabet contains
HasForbiddenHostChar(h) == \E i \in DOMAIN h : h[i] = " "

\* Host::parse (special schemes): lower-case, reject forbidden characters, IPv4
ParseHost(h) ==
    LET low == ToLower(h)
    IN  IF HasForbiddenHostChar(low) THEN [ok |-> FALSE, host |-> <<>>, err |-> "InvalidDomainCharacter"]
        ELSE IF low # <<>> /\ EndsInANumber(low)
        THEN LET o == ParseIpv4(low)
             IN  IF o = <<>> THEN [ok |-> FALSE, host |-> <<>>, err |-> "InvalidIpv4Address"]
                 ELSE [ok |-> TRUE, host |-> FormatIpv4(o), err |-> "none"]
        ELSE [ok |-> TRUE, host |-> low, err |-> "none"]

\* Host::parse_opaque (non-special schemes): kept as written
ParseOpaqueHost(h) ==
    IF HasForbiddenHostChar(h) THEN [ok |-> FALSE, host |-> <<>>, err |-> "InvalidDomainCharacter"]
    ELSE [ok |-> TRUE, host |-> h, err |-> "none"]

\* u16::MAX
MaxPort == 65535

\* Parser::parse_port: the digits' value, -1 once it exceeds u16::MAX
RECURSIVE PortValue(_, _)
PortValue(s, acc) ==
    IF s = <<>> THEN acc
    ELSE LET p == acc * 10 + DigitVal(Head(s))
         IN  IF p > MaxPort THEN -1 ELSE PortValue(Tail(s), p)

DigitsEnd(s) ==
    LET stops == { i \in DOMAIN s : ~IsDigit(s[i]) }
    IN  IF stops = {} THEN Len(s) + 1
        ELSE CHOOSE i \in stops : \A j \in stops : i <= j

\* Parser::parse_port after the ":"; port -1 stands for None
ParsePort(s, scheme) ==
    LET k   == DigitsEnd(s)
        val == PortValue(SubSeq(s, 1, k - 1), 0)
    IN  IF val = -1 \/ (k <= Len(s) /\ s[k] # "/")
        THEN [ok |-> FALSE, port |-> -1, rest |-> <<>>]
        ELSE [ok |-> TRUE,
              port |-> IF k = 1 \/ val = DefaultPort(scheme) THEN -1 ELSE val,
              rest |-> SubSeq(s, k, Len(s))]

\* percent-encoding of a path character (PATH set: of InputAlphabet only the space)
EncodePathChar(c) == IF c = " " THEN <<"%","2","0">> ELSE <<c>>

\* Parser::parse_path on a path without "." or ".." segments
EncodePath(s) == Flatten([i \in DOMAIN s |-> EncodePathChar(s[i])])

\* Parser::after_double_slash: host, port, path
AfterDoubleSlash(scheme, s) ==
    LET special == IsSpecialNotFile(scheme)
        k       == HostEnd(s)
        hostStr == SubSeq(s, 1, k - 1)
        rem     == SubSeq(s, k, Len(s))
        h       == IF special THEN ParseHost(hostStr) ELSE ParseOpaqueHost(hostStr)
        hasPort == rem # <<>> /\ Head(rem) = ":"
        p       == IF hasPort THEN ParsePort(Tail(rem), scheme)
                   ELSE [ok |-> TRUE, port |-> -1, rest |-> rem]
    IN  IF special /\ hostStr = <<>> THEN ParseErr("EmptyHost")
        ELSE IF ~h.ok THEN ParseErr(h.err)
        ELSE IF h.host = <<>> /\ hasPort THEN ParseErr("EmptyHost")
        ELSE IF ~p.ok THEN ParseErr("InvalidPort")
        ELSE ParseOk(scheme \o <<":","/","/">> \o h.host
                     \o (IF p.port = -1 THEN <<>> ELSE <<":">> \o Decimal(p.port))
                     \o (IF special /\ p.rest = <<>> THEN <<"/">> ELSE EncodePath(p.rest)))

\* Parser::parse_non_special: authority, path-absolute or cannot-be-a-base path
ParseNonSpecial(scheme, s) ==
    IF Len(s) >= 2 /\ s[1] = "/" /\ s[2] = "/"
    THEN AfterDoubleSlash(scheme, SubSeq(s, 3, Len(s)))
    ELSE IF s # <<>> /\ s[1] = "/"
    THEN ParseOk(scheme \o <<":">> \o EncodePath(s))
    ELSE ParseOk(scheme \o <<":">> \o s)

\* A lenient parser: falls back to the default URL's serialization on error.
ParseUrlOrDefault(input) ==
    LET sch == ParseScheme(Trim(input))
    IN  IF sch.ok /\ IsSpecialNotFile(sch.scheme)
           /\ AfterDoubleSlash(sch.scheme, SkipSlashes(sch.rest)).ok
        THEN AfterDoubleSlash(sch.scheme, SkipSlashes(sch.rest))
        ELSE ParseOk(DEFAULT_URL \o <<"/">>)

\* Url::parse(input) without a base URL
ParseUrl(input) ==
    LET sch == ParseScheme(Trim(input))
    IN  IF ~sch.ok THEN ParseErr("RelativeUrlWithoutBase")
        ELSE IF sch.scheme = SchemeFile THEN ParseErr("FileSchemeNotModelled")
        ELSE IF IsSpecialNotFile(sch.scheme)
        THEN AfterDoubleSlash(sch.scheme, SkipSlashes(sch.rest))
        ELSE ParseNonSpecial(sch.scheme, sch.rest)

(***************************************************************************)
(* The environment the process is started in                               *)
(***************************************************************************)
PieceHttps == <<"h","t","t","p","s">>

PieceHTTP == <<"H","T","T","P">>

PieceSlashes == <<":","/","/">>

PieceHost == <<"e","x","a","m","p","l","e",".","c","o","m">>

PieceApp == <<"/","a","p","p">>

PiecePort == <<":","4","4","3">>

PieceSpace == <<" ">>

Pieces ==
    {PieceHttps, PieceHTTP, PieceSlashes, PieceHost, PieceApp, PiecePort, PieceSpace}

\* "not a url"
NotAUrl == <<"n","o","t"," ","a"," ","u","r","l">>

\* "https://example.com/app"
ExampleApp == PieceHttps \o PieceSlashes \o PieceHost \o PieceApp

\* "localhost:3000": a host and port without a scheme
HostPort == <<"l","o","c","a","l","h","o","s","t",":","3","0","0","0">>

\* the longest value of ROYALTIES_URL, in pieces
MaxParts == 4

RECURSIVE Concats(_)
Concats(n) ==
    IF n = 0 THEN {<<>>}
    ELSE LET shorter == Concats(n - 1)
         IN  shorter \cup { s \o p : s \in shorter, p \in Pieces }

\* the values ROYALTIES_URL may hold: "", the named examples, and every
\* concatenation of at most MaxParts pieces
EnvStrings == Concats(MaxParts) \cup {NotAUrl, ExampleApp, HostPort, DEFAULT_URL}

\* the outcomes of std::env::var("ROYALTIES_URL"): Ok(String),
\* Err(VarError::NotPresent), Err(VarError::NotUnicode(_))
EnvLookups ==
    { [kind |-> "Ok", val |-> s] : s \in EnvStrings }
        \cup { [kind |-> "NotPresent", val |-> <<>>], [kind |-> "NotUnicode", val |-> <<>>] }

\* url.parse() tabulated over the strings the closure can hold (the table is
\* evaluated once; ParseUrl decides every entry)
ParseTable == [s \in EnvStrings |-> ParseUrl(s)]

(***************************************************************************)
(* The setup closure's pure parts                                          *)
(***************************************************************************)
\* A resolver that takes the empty string for an unset variable.
ResolveEmptyAsDefault(e) ==
    IF e.kind = "Ok" /\ e.val # <<>> THEN e.val ELSE DEFAULT_URL

\* A resolver that lets a read error fall through as the empty string.
ResolveStrict(e) ==
    IF e.kind = "NotPresent" THEN DEFAULT_URL ELSE e.val

\* A resolver whose fallback is the bare host and port.
ResolveBareDefault(e) ==
    IF e.kind = "Ok" THEN e.val ELSE HostPort

\* A resolver that trims the value it read.
ResolveTrimmed(e) ==
    IF e.kind = "Ok" THEN Trim(e.val) ELSE DEFAULT_URL

\* std::env::var("ROYALTIES_URL").unwrap_or_else(|_| "http://localhost:3000".to_string())
ResolveTargetUrl(e) ==
    IF e.kind = "Ok" THEN e.val ELSE DEFAULT_URL

INNER_WIDTH == 1200

INNER_HEIGHT == 800

MIN_INNER_WIDTH == 900

MIN_INNER_HEIGHT == 600

\* A request whose initial size is taken from the length of the URL.
WindowRequestSizedByUrl(u) ==
    [label |-> WINDOW_LABEL, url |-> u, title |-> WINDOW_TITLE,
     inner_size |-> <<INNER_WIDTH + Len(u), INNER_HEIGHT>>,
     min_inner_size |-> <<MIN_INNER_WIDTH, MIN_INNER_HEIGHT>>]

\* WindowBuilder::new(app, "main", WindowUrl::External(u)).title(..)
\*     .inner_size(1200.0, 800.0).min_inner_size(900.0, 600.0)
WindowRequest(u) ==
    [label |-> WINDOW_LABEL, url |-> u, title |-> WINDOW_TITLE,
     inner_size |-> <<INNER_WIDTH, INNER_HEIGHT>>,
     min_inner_size |-> <<MIN_INNER_WIDTH, MIN_INNER_HEIGHT>>]

\* exit status of a process whose main thread panicked
PANIC_STATUS == 101

\* exit status after the event loop ended because the last window closed
EXIT_OK == 0

(***************************************************************************)
(* The process                                                             *)
(***************************************************************************)
Init ==
    /\ env \in EnvLookups
    /\ pc = "main"
    /\ url = <<>>
    /\ target = <<>>
    /\ requests = <<>>
    /\ buildResults = <<>>
    /\ windows = {}
    /\ lifecycle = "Initializing"
    /\ exitStatus = {}
    /\ stderr = <<>>

\* A failure path that exits cleanly.
FailQuietly(msg) ==
    /\ pc' = "exited"
    /\ lifecycle' = "TerminatedError"
    /\ exitStatus' = {EXIT_OK}
    /\ stderr' = Append(stderr, msg)

\* panic!: unwrap() on Err (line 17), the runtime's panic on a setup error
\* (line 22, the error propagated by "?"), expect() on Err (line 27)
Panic(msg) ==
    /\ pc' = "exited"
    /\ lifecycle' = "TerminatedError"
    /\ exitStatus' = {PANIC_STATUS}
    /\ stderr' = Append(stderr, msg)

\* Builder::default().setup(..).run(..): the runtime starts and calls the closure
RuntimeReady ==
    /\ pc = "main"
    /\ pc' = "setup"
    /\ UNCHANGED <<env, url, target, requests, buildResults, windows, lifecycle,
                   exitStatus, stderr>>

\* run(..) returns Err before the closure is called; expect() panics
RuntimeInitFail ==
    /\ pc = "main"
    /\ Panic("error while running tauri application")
    /\ UNCHANGED <<env, url, target, requests, buildResults, windows>>

\* lines 11-12
ResolveUrl ==
    /\ pc = "setup"
    /\ url' = ResolveTargetUrl(env)
    /\ pc' = "parse"
    /\ UNCHANGED <<env, target, requests, buildResults, windows, lifecycle,
                   exitStatus, stderr>>

\* line 17: url.parse().unwrap()
ParseTarget ==
    /\ pc = "parse"
    /\ LET r == ParseTable[url]
       IN  IF r.ok
           THEN /\ target' = r.url
                /\ pc' = "build"
                /\ UNCHANGED <<lifecycle, exitStatus, stderr>>
           ELSE /\ Panic(r.err)
                /\ UNCHANGED target
    /\ UNCHANGED <<env, url, requests, buildResults, windows>>

\* A builder that asks a second time when the first request fails.
BuildWindowRetry ==
    /\ pc = "build"
    /\ \E ok \in BOOLEAN :
         IF ok
         THEN /\ requests' = Append(requests, WindowRequest(target))
              /\ buildResults' = Append(buildResults, "Ok")
              /\ windows' = windows \cup {WindowRequest(target)}
              /\ pc' = "built"
              /\ UNCHANGED <<lifecycle, exitStatus, stderr>>
         ELSE /\ requests' = Append(requests, WindowRequest(target))
              /\ buildResults' = Append(buildResults, "Err")
              /\ IF Len(requests) = 0
                 THEN UNCHANGED <<pc, lifecycle, exitStatus, stderr>>
                 ELSE Panic("Failed to setup app")
              /\ UNCHANGED windows
    /\ UNCHANGED <<env, url, target>>

\* A builder that opens the window twice.
BuildWindowTwice ==
    /\ pc = "build"
    /\ \E ok \in BOOLEAN :
         IF ok
         THEN /\ requests' = requests \o <<WindowRequest(target), WindowRequest(target)>>
              /\ buildResults' = buildResults \o <<"Ok", "Ok">>
              /\ windows' = windows \cup {WindowRequest(target)}
              /\ pc' = "built"
              /\ UNCHANGED <<lifecycle, exitStatus, stderr>>
         ELSE /\ requests' = Append(requests, WindowRequest(target))
              /\ buildResults' = Append(buildResults, "Err")
              /\ Panic("Failed to setup app")
              /\ UNCHANGED windows
    /\ UNCHANGED <<env, url, target>>

\* lines 14-22: WindowBuilder::new(..)...build()?  The host runtime answers
\* with the window or with an error, which "?" returns from the closure.
BuildWindow ==
    /\ pc = "build"
    /\ \E ok \in BOOLEAN :
         IF ok
         THEN /\ requests' = Append(requests, WindowRequest(target))
              /\ buildResults' = Append(buildResults, "Ok")
              /\ windows' = windows \cup {WindowRequest(target)}
              /\ pc' = "built"
              /\ UNCHANGED <<lifecycle, exitStatus, stderr>>
         ELSE /\ requests' = Append(requests, WindowRequest(target))
              /\ buildResults' = Append(buildResults, "Err")
              /\ Panic("Failed to setup app")
              /\ UNCHANGED windows
    /\ UNCHANGED <<env, url, target>>

\* line 24: Ok(()); the event loop now owns the process
SetupOk ==
    /\ pc = "built"
    /\ pc' = "running"
    /\ lifecycle' = "Running"
    /\ UNCHANGED <<env, url, target, requests, buildResults, windows, exitStatus,
                   stderr>>

\* An event loop that runs the setup closure again when the window closes.
CloseWindowRestart ==
    /\ pc = "running"
    /\ windows' = {}
    /\ pc' = "setup"
    /\ lifecycle' = "Initializing"
    /\ UNCHANGED <<env, url, target, requests, buildResults, exitStatus, stderr>>

\* the user closes the window: the event loop ends and the process exits 0
CloseWindow ==
    /\ pc = "running"
    /\ windows' = {}
    /\ pc' = "exited"
    /\ lifecycle' = "TerminatedOk"
    /\ exitStatus' = {EXIT_OK}
    /\ UNCHANGED <<env, url, target, requests, buildResults, stderr>>

Startup ==
    \/ RuntimeReady
    \/ RuntimeInitFail
    \/ ResolveUrl
    \/ ParseTarget
    \/ BuildWindow
    \/ SetupOk

Next ==
    \/ RuntimeReady
    \/ RuntimeInitFail
    \/ ResolveUrl
    \/ ParseTarget
    \/ BuildWindow
    \/ SetupOk
    \/ CloseWindow

Spec == Init /\ [][Next]_vars

\* main() is straight-line code on one thread: every startup step that can be
\* taken is taken.  Nothing obliges the user to close the window.
FairSpec == Spec /\ WF_vars(Startup)

(***************************************************************************)
(* Properties                                                              *)
(***************************************************************************)
\* the serialization of the URL that DEFAULT_URL denotes: "http://localhost:3000/"
DefaultTarget == DEFAULT_URL \o <<"/">>

Resolved == pc \in {"parse", "build", "built", "running"}

Parsed == pc \in {"build", "built", "running"}

ExitedNonZero == pc = "exited" /\ exitStatus # {} /\ 0 \notin exitStatus

\* the messages of the two failures that are not a URL parse failure
HostFailures == {"error while running tauri application", "Failed to setup app"}

\* C1: with ROYALTIES_URL = "not a url" no window-creation request is ever
\* issued, no window exists, the build step and the Running state are never
\* reached, and once the process has exited its status is non-zero.
C1_InvalidUrlNeverBuilds ==
    env = [kind |-> "Ok", val |-> NotAUrl] =>
        /\ requests = <<>>
        /\ buildResults = <<>>
        /\ windows = {}
        /\ ~Parsed
        /\ lifecycle \in {"Initializing", "TerminatedError"}
        /\ pc = "exited" => ExitedNonZero /\ lifecycle = "TerminatedError"

C1_Witness ==
    /\ env = [kind |-> "Ok", val |-> NotAUrl]
    /\ url = NotAUrl
    /\ stderr = <<"RelativeUrlWithoutBase">>
    /\ ExitedNonZero
    /\ requests = <<>>

C3_ContentSourceIsEnvString ==
    (env.kind = "Ok" /\ ParseUrl(env.val).ok) =>
        \A i \in DOMAIN requests : requests[i].url = env.val

\* C3 amended: the resolved string is exactly the value of ROYALTIES_URL, the
\* content source is the URL parsed from it, and for
\* "https://example.com/app" that URL's serialization is the string itself.
C3_ResolvedIsEnvString ==
    (env.kind = "Ok" /\ ParseUrl(env.val).ok) =>
        /\ Resolved => url = env.val
        /\ \A i \in DOMAIN requests :
             /\ requests[i].url = ParseUrl(env.val).url
             /\ env.val = ExampleApp => requests[i].url = ExampleApp

C3_Witness ==
    /\ env = [kind |-> "Ok", val |-> ExampleApp]
    /\ url = ExampleApp
    /\ Len(requests) = 1
    /\ requests[1].url = ExampleApp

\* C4: once the host runtime has answered a window-creation request with an
\* error, the process has exited with a non-zero status, is not and never was
\* Running, holds no window, and has issued exactly that one request.
C4_BuildFailureTerminates ==
    (\E i \in DOMAIN buildResults : buildResults[i] = "Err") =>
        /\ ExitedNonZero
        /\ lifecycle = "TerminatedError"
        /\ windows = {}
        /\ Len(requests) = 1
        /\ buildResults = <<"Err">>

C4_Witness ==
    /\ buildResults = <<"Err">>
    /\ Len(requests) = 1
    /\ ExitedNonZero
    /\ stderr = <<"Failed to setup app">>

\* C5: every window-creation request carries label "main", title
\* "Royalties - Whales Music", initial size 1200x800 and minimum size 900x600,
\* whatever the environment and the URL.
C5_FixedWindowParameters ==
    \A i \in DOMAIN requests :
        /\ requests[i].label = <<"m","a","i","n">>
        /\ requests[i].title = WINDOW_TITLE
        /\ Len(requests[i].title) = 24
        /\ requests[i].inner_size = <<1200, 800>>
        /\ requests[i].min_inner_size = <<900, 600>>

C5_Witness ==
    /\ env.kind = "Ok"
    /\ Len(requests) = 1
    /\ requests[1].url # DefaultTarget
    /\ requests[1].url # env.val
    /\ requests[1].inner_size = <<1200, 800>>

\* C6: every step that changes the lifecycle state leaves Initializing for
\* Running, right after the window was built and the closure returned, or
\* leaves Initializing for Terminated(error), or is the exit of the Running
\* process when its window is closed; no step enters Initializing, and
\* no step leaves Terminated(error).
C6_LinearLifecycle ==
    [][ lifecycle' # lifecycle =>
          \/ /\ lifecycle = "Initializing"
             /\ lifecycle' = "Running"
             /\ buildResults = <<"Ok">>
             /\ windows # {}
          \/ /\ lifecycle = "Initializing"
             /\ lifecycle' = "TerminatedError"
          \/ /\ lifecycle = "Running"
             /\ lifecycle' = "TerminatedOk"
             /\ pc' = "exited" ]_vars

C6_Witness ==
    /\ lifecycle = "TerminatedOk"
    /\ buildResults = <<"Ok">>
    /\ Len(requests) = 1

StartupOutcome ==
    /\ lifecycle = "Running" =>
         /\ pc = "running"
         /\ Cardinality(windows) = 1
         /\ buildResults = <<"Ok">>
         /\ exitStatus = {}
    /\ lifecycle = "TerminatedError" =>
         /\ ExitedNonZero
         /\ windows = {}
         /\ \A i \in DOMAIN buildResults : buildResults[i] # "Ok"
    /\ (exitStatus # {} /\ 0 \in exitStatus) => lifecycle = "TerminatedOk"
    /\ lifecycle = "TerminatedOk" => buildResults = <<"Ok">>

\* C7: startup always leaves Initializing, and whenever it has, the process
\* is either Running with its one window built, or has exited with a non-zero
\* status without any window ever built; status 0 is only the exit of a
\* process that was Running.
C7_StartupEnds ==
    /\ <>(lifecycle # "Initializing")
    /\ []StartupOutcome

C7_Witness ==
    /\ lifecycle = "TerminatedError"
    /\ ExitedNonZero
    /\ stderr = <<"InvalidPort">>

\* C8: when reading ROYALTIES_URL fails because the value is not Unicode, the
\* resolved string is the default, it parses, and the process does not end in
\* a parse failure: if it exited, the host runtime failed or the window was
\* closed.
C8_UnreadableIsDefault ==
    env.kind = "NotUnicode" =>
        /\ Resolved => url = DEFAULT_URL
        /\ Parsed => target = DefaultTarget
        /\ \A i \in DOMAIN requests : requests[i].url = DefaultTarget
        /\ \A i \in DOMAIN stderr : stderr[i] \in HostFailures
        /\ (pc = "exited" /\ url # <<>>) => requests # <<>>

C8_Witness ==
    /\ env.kind = "NotUnicode"
    /\ lifecycle = "Running"
    /\ \E w \in windows : w.url = DefaultTarget

\* C9: for every value of ROYALTIES_URL that was read and does not parse, the
\* empty string included, the resolved string stays that value, no URL is
\* parsed, no window is requested (on the default URL or any other), and the
\* process, once exited, has failed with a non-zero status.
C9_NoFallbackOnParseFailure ==
    (env.kind = "Ok" /\ ~ParseUrl(env.val).ok) =>
        /\ Resolved => url = env.val
        /\ target = <<>>
        /\ requests = <<>>
        /\ windows = {}
        /\ lifecycle # "Running"
        /\ pc = "exited" => ExitedNonZero /\ lifecycle = "TerminatedError"

C9_Witness ==
    /\ env = [kind |-> "Ok", val |-> <<>>]
    /\ stderr = <<"RelativeUrlWithoutBase">>
    /\ ExitedNonZero
    /\ requests = <<>>

\* C10: at most one window-creation request is ever issued; a Running
\* process has exactly one window, whose content source is the URL parsed
\* from the string resolved at startup; and no step adds a window to, or
\* changes the window of, a process that has one.
C10_ExactlyOneWindow ==
    /\ [](/\ Len(requests) <= 1
          /\ Cardinality(windows) <= 1
          /\ lifecycle = "Running" =>
               /\ Cardinality(windows) = 1
               /\ \A w \in windows :
                    /\ w.url = target
                    /\ w = requests[1]
                    /\ ParseUrl(url) = ParseOk(w.url))
    /\ [][windows # {} => (windows' \subseteq windows /\ requests' = requests)]_vars

C10_Witness ==
    /\ lifecycle = "Running"
    /\ Cardinality(windows) = 1
    /\ Len(requests) = 1
    /\ env.kind = "Ok"
    /\ url # DEFAULT_URL

====
